---- MODULE Spec2Model ----
(***************************************************************************)
(* FONTX2 bitmap font decoder (src/kanakanji/fontx.rs).                    *)
(*                                                                         *)
(* State: the font blob `rom`, the descriptor `fontx` that FONTX::new      *)
(* builds from it, the caller's output buffer `buf`, and a record of the   *)
(* last call (`call`).  Operations: FONTX::new, FONTX::get_sjis_offset,    *)
(* FONTX::render.  Sequences are 1-based here, slices in the source are    *)
(* 0-based: At(r, i) is r[i] of the source.                                *)
(***************************************************************************)
EXTENDS Integers, Sequences, FiniteSets, TLC

VARIABLES rom, overflow_checks, pc, init_result, header, oob_read, fontx,
          buf, call, last_ok

vars == <<rom, overflow_checks, pc, init_result, header, oob_read, fontx,
          buf, call, last_ok>>

(***************************************************************************)
(* Bounds of the model.                                                    *)
(***************************************************************************)
\* largest number of code-block table entries in a generated blob
MaxBlocks == 2
\* number of glyph bitmap bytes that follow the table in a generated blob
DataLen == 12
\* length of the largest output buffer a caller passes
MaxBufLen == 6

(***************************************************************************)
(* Byte-level helpers.                                                     *)
(***************************************************************************)
\* r[i] with the source's 0-based index
At(r, i) == r[i + 1]

\* the literal the magic is compared with: "FONTX2"
Magic == <<70, 79, 78, 84, 88, 50>>

\* number of bytes FONTX::new copies into the packed header
HeaderLen == 18

\* 2^16: eb - sb + 1 is computed in u16
U16 == 65536

(***************************************************************************)
(* The Shift-JIS encoder of encoding_rs, as FONTX::get_sjis_offset uses it:*)
(* one UTF-16 code unit in, at most two bytes out, no replacement.  The    *)
(* double-byte index is the excerpt of JIS X 0208 that covers Chars.       *)
(***************************************************************************)
Index0208 == (12354 :> <<130, 160>>)     \* U+3042 -> 0x82A0
          @@ (12398 :> <<130, 204>>)     \* U+306E -> 0x82CC

Encode(c) ==
    IF c <= 128 THEN [res |-> "InputEmpty", bytes |-> <<c>>]
    ELSE IF c = 165 THEN [res |-> "InputEmpty", bytes |-> <<92>>]
    ELSE IF c = 8254 THEN [res |-> "InputEmpty", bytes |-> <<126>>]
    ELSE IF c >= 65377 /\ c <= 65439
         THEN [res |-> "InputEmpty", bytes |-> <<c - 65377 + 161>>]
    ELSE IF c \in DOMAIN Index0208
         THEN [res |-> "InputEmpty", bytes |-> Index0208[c]]
    ELSE [res |-> "Unmappable", bytes |-> <<>>]

OutputFull == [res |-> "OutputFull", bytes |-> <<>>]

\* the encoder is not called for a character above U+FFFF
NotCalled == [res |-> "NotCalled", bytes |-> <<>>]

\* the encoder's answer is an input of get_sjis_offset: the mapping of the
\* character, or OutputFull, the third variant of EncoderResult the source
\* matches on
AdapterOutcomes(c) == IF c > 65535 THEN {NotCalled} ELSE {Encode(c), OutputFull}

(***************************************************************************)
(* FONTX::new                                                              *)
(***************************************************************************)
NoFont == [code |-> "None", codeblocks |-> 0, headersz |-> 0,
           width |-> 0, height |-> 0, char_sz |-> 0]

\* (header.width as usize + 7) / 8 * header.height as usize
char_sz_of(w, h) == ((w + 7) \div 8) * h

\* headersz as if the code-block count byte were part of an ANK header
headersz_with_count(code, cb) == 18 + cb * 4

\* headersz: 17 for ANK, 18 + codeblocks * 4 otherwise
headersz_of(code, cb) == IF code = "ANK" THEN 17 ELSE 18 + cb * 4

\* codeblocks: 0 for ANK, header.codeblocks otherwise
codeblocks_of(code, cb) == IF code = "ANK" THEN 0 ELSE cb

\* code_flag as if every non-zero flag meant Shift-JIS
code_of_nonzero(flag) == IF flag = 0 THEN "ANK" ELSE "ShiftJIS"

\* match header.code_flag { 0 => ANK, 1 => ShiftJIS, _ => InvalidFormat }
code_of(flag) == IF flag = 0 THEN "ANK"
                 ELSE IF flag = 1 THEN "ShiftJIS"
                 ELSE "Invalid"

\* hdr is the 18-byte FontXHeader the unsafe copy filled
new(hdr) ==
    IF SubSeq(hdr, 1, 6) # Magic
    THEN [result |-> "InvalidFormat", font |-> NoFont]
    ELSE LET code == code_of(At(hdr, 16)) IN
         IF code = "Invalid"
         THEN [result |-> "InvalidFormat", font |-> NoFont]
         ELSE [result |-> "Ok",
               font |-> [code |-> code,
                         codeblocks |-> codeblocks_of(code, At(hdr, 17)),
                         headersz |-> headersz_of(code, At(hdr, 17)),
                         width |-> At(hdr, 14),
                         height |-> At(hdr, 15),
                         char_sz |-> char_sz_of(At(hdr, 14), At(hdr, 15))]]

(***************************************************************************)
(* FONTX::get_sjis_offset                                                  *)
(***************************************************************************)
Res(kind, off, wrapped) == [kind |-> kind, off |-> off, wrapped |-> wrapped]

\* let mut sjis_arr = [0_u8; 2], then the bytes the encoder wrote
sjis_arr_of(enc) == [i \in 1..2 |-> IF i <= Len(enc.bytes) THEN enc.bytes[i] ELSE 0]

\* ((sjis_arr[0] as u16) << 8) + sjis_arr[1] as u16
sjis_code_of(enc) == sjis_arr_of(enc)[1] * 256 + sjis_arr_of(enc)[2]

\* the table walk; blk is the loop variable, charcnt the accumulator (usize:
\* at most 255 * 65536 glyphs, it does not overflow).
\* eb - sb + 1 is u16 arithmetic: with overflow checks it panics when it
\* leaves 0..65535, without them it wraps.
RECURSIVE seek(_, _, _, _, _, _, _)
seek(self, r, sjis_code, blk, charcnt, wrapped, checks) ==
    IF blk >= self.codeblocks
    THEN Res("UnsupportedCharacter", -1, wrapped)
    ELSE LET off == 18 + 4 * blk IN
         IF off + 3 >= Len(r)
         THEN Res("PanicIndex", -1, wrapped)
         ELSE LET sb == At(r, off + 1) * 256 + At(r, off)
                  eb == At(r, off + 3) * 256 + At(r, off + 2)
              IN  IF sb <= sjis_code /\ eb >= sjis_code
                  THEN Res("Ok", self.headersz
                                 + (charcnt + (sjis_code - sb)) * self.char_sz,
                           wrapped)
                  ELSE IF eb - sb < 0 \/ eb - sb + 1 >= U16
                       THEN IF checks
                            THEN Res("PanicOverflow", -1, TRUE)
                            ELSE seek(self, r, sjis_code, blk + 1,
                                      charcnt + ((((eb - sb) % U16) + 1) % U16),
                                      TRUE, checks)
                       ELSE seek(self, r, sjis_code, blk + 1,
                                 charcnt + (eb - sb + 1), wrapped, checks)

\* the lookup as if an unmappable character were looked up as code 0
get_sjis_offset_ignoring_unmappable(self, r, character, enc, checks) ==
    IF character > 65535 THEN Res("UnsupportedCharacter", -1, FALSE)
    ELSE IF enc.res = "OutputFull" THEN Res("UnknownError", -1, FALSE)
    ELSE LET sjis_code == sjis_code_of(enc) IN
         IF self.code = "ANK"
         THEN IF sjis_code <= 255
              THEN Res("Ok", self.headersz + sjis_code * self.char_sz, FALSE)
              ELSE Res("UnsupportedCharacter", -1, FALSE)
         ELSE seek(self, r, sjis_code, 0, 0, FALSE, checks)

get_sjis_offset(self, r, character, enc, checks) ==
    IF character > 65535 THEN Res("UnsupportedCharacter", -1, FALSE)
    ELSE IF enc.res = "OutputFull" THEN Res("UnknownError", -1, FALSE)
    ELSE IF enc.res = "Unmappable" THEN Res("UnsupportedCharacter", -1, FALSE)
    ELSE LET sjis_code == sjis_code_of(enc) IN
         IF self.code = "ANK"
         THEN IF sjis_code <= 255
              THEN Res("Ok", self.headersz + sjis_code * self.char_sz, FALSE)
              ELSE Res("UnsupportedCharacter", -1, FALSE)
         ELSE seek(self, r, sjis_code, 0, 0, FALSE, checks)

(***************************************************************************)
(* FONTX::render                                                           *)
(***************************************************************************)
\* the copy as if it cleared the rest of the buffer
clone_and_clear(b, r, off, sz) ==
    [i \in 1..Len(b) |-> IF i <= sz THEN At(r, off + i - 1) ELSE 0]

\* buf[..char_sz].clone_from_slice(&rom[off..(char_sz + off)])
clone_from_slice(b, r, off, sz) ==
    [i \in 1..Len(b) |-> IF i <= sz THEN At(r, off + i - 1) ELSE b[i]]

\* the result of render and the buffer it leaves
render(self, r, character, enc, b, checks) ==
    IF character > 65535
    THEN [res |-> Res("UnsupportedCharacter", -1, FALSE), out |-> b]
    ELSE LET o == get_sjis_offset(self, r, character, enc, checks) IN
         IF o.kind # "Ok" THEN [res |-> o, out |-> b]
         ELSE IF self.char_sz > Len(b)
              THEN [res |-> Res("PanicIndex", o.off, o.wrapped), out |-> b]
         ELSE IF self.char_sz + o.off > Len(r)
              THEN [res |-> Res("PanicIndex", o.off, o.wrapped), out |-> b]
         ELSE [res |-> o, out |-> clone_from_slice(b, r, o.off, self.char_sz)]

(***************************************************************************)
(* The blobs, buffers and characters the model runs on.                    *)
(***************************************************************************)
\* the 8 name bytes; the decoder never looks at them
Name == <<77, 79, 68, 69, 76, 32, 32, 32>>

\* (width, height) pairs: 1 and 4 bytes per glyph
Dims == {<<8, 1>>, <<12, 2>>}

\* header kinds: (magic, code_flag); the last has the magic "FONTX1"
HeaderKinds == {<<Magic, 0>>, <<Magic, 1>>, <<Magic, 2>>,
                <<<<70, 79, 78, 84, 88, 49>>, 1>>}

\* table entries <<start, end>>: two disjoint ranges, one with start > end,
\* and the full range, which overlaps every other
Entries == {<<33440, 33441>>,    \* 0x82A0..0x82A1
            <<33482, 33485>>,    \* 0x82CA..0x82CD
            <<33485, 33482>>,    \* 0x82CD..0x82CA, start > end
            <<0, 65535>>}

RECURSIVE SeqsUpTo(_, _)
SeqsUpTo(S, n) ==
    IF n = 0 THEN {<<>>}
    ELSE LET shorter == SeqsUpTo(S, n - 1) IN
         shorter \cup {Append(s, e) : s \in {t \in shorter : Len(t) = n - 1}, e \in S}

Tables == SeqsUpTo(Entries, MaxBlocks)

\* (start_lo, start_hi, end_lo, end_hi) of every entry, little-endian
RECURSIVE TableBytes(_)
TableBytes(tbl) ==
    IF tbl = <<>> THEN <<>>
    ELSE LET e == Head(tbl) IN
         <<e[1] % 256, e[1] \div 256, e[2] % 256, e[2] \div 256>>
         \o TableBytes(Tail(tbl))

GlyphData == [i \in 1..DataLen |-> (i * 37 + 11) % 256]

FullBlob(kind, dim, tbl) ==
    kind[1] \o Name \o <<dim[1], dim[2], kind[2], Len(tbl)>>
    \o TableBytes(tbl) \o GlyphData

\* lengths a blob is cut to: empty, shorter than the magic, without the
\* code-block count, the bare header, inside the table, the table without
\* glyphs, and whole
CutLens(full, nblk) ==
    {0, 5, 17, 18, 18 + 4 * nblk, Len(full)}
    \cup (IF nblk > 0 THEN {18 + 4 * nblk - 2} ELSE {})

Blobs == UNION {
           {SubSeq(FullBlob(k, d, t), 1, n) : n \in CutLens(FullBlob(k, d, t), Len(t))}
           : k \in HeaderKinds, d \in Dims, t \in Tables}

BufLens == {2, MaxBufLen}

Buffers == {[i \in 1..n |-> 200 + i] : n \in BufLens}

\* NUL, 'A', hiragana A, hiragana NO, Hangul GA (no Shift-JIS mapping),
\* halfwidth katakana A, and one supplementary character
Chars == {0, 65, 12354, 12398, 44032, 65393, 128512}

\* what the 18-byte read finds behind the end of a blob shorter than 18
\* bytes: zeroes, or memory that happens to hold a font header
JunkHeaders == {[i \in 1..18 |-> 0],
                Magic \o Name \o <<8, 1, 0, 0>>,
                Magic \o Name \o <<8, 1, 1, 1>>}

NoCall == [op |-> "none", ch |-> 0, enc |-> NotCalled, kind |-> "none",
           off |-> -1, wrapped |-> FALSE, val |-> <<>>]

NoRender == [ch |-> -1, enc |-> NotCalled, out |-> <<>>]

(***************************************************************************)
(* The state machine.                                                      *)
(***************************************************************************)
Init ==
    /\ rom \in Blobs
    /\ overflow_checks \in BOOLEAN
    /\ buf \in Buffers
    /\ pc = "start"
    /\ init_result = "none"
    /\ header = [i \in 1..HeaderLen |-> 0]
    /\ oob_read = FALSE
    /\ fontx = NoFont
    /\ call = NoCall
    /\ last_ok = NoRender

\* FONTX::new on a blob that holds the 18 header bytes
New ==
    /\ pc = "start"
    /\ Len(rom) >= HeaderLen
    /\ LET hdr == SubSeq(rom, 1, HeaderLen)
           r == new(hdr)
       IN  /\ header' = hdr
           /\ init_result' = r.result
           /\ fontx' = r.font
           /\ pc' = IF r.result = "Ok" THEN "ready" ELSE "failed"
    /\ UNCHANGED <<rom, overflow_checks, oob_read, buf, call, last_ok>>

\* FONTX::new on a shorter blob: copy_from reads 18 bytes all the same, the
\* bytes behind the blob are whatever memory holds
NewShort ==
    /\ pc = "start"
    /\ Len(rom) < HeaderLen
    /\ \E junk \in JunkHeaders :
         LET hdr == [i \in 1..HeaderLen |-> IF i <= Len(rom) THEN rom[i] ELSE junk[i]]
             r == new(hdr)
         IN  /\ header' = hdr
             /\ init_result' = r.result
             /\ fontx' = r.font
             /\ pc' = IF r.result = "Ok" THEN "ready" ELSE "failed"
    /\ oob_read' = TRUE
    /\ UNCHANGED <<rom, overflow_checks, buf, call, last_ok>>

\* the same read faults when the memory behind the blob is not mapped
NewFault ==
    /\ pc = "start"
    /\ Len(rom) < HeaderLen
    /\ pc' = "crashed"
    /\ init_result' = "Fault"
    /\ oob_read' = TRUE
    /\ UNCHANGED <<rom, overflow_checks, header, fontx, buf, call, last_ok>>

IsPanic(kind) == kind \in {"PanicIndex", "PanicOverflow"}

GetSjisOffset ==
    /\ pc = "ready"
    /\ \E c \in Chars : \E enc \in AdapterOutcomes(c) :
         LET o == get_sjis_offset(fontx, rom, c, enc, overflow_checks) IN
         /\ call' = [op |-> "get_sjis_offset", ch |-> c, enc |-> enc,
                     kind |-> o.kind, off |-> o.off, wrapped |-> o.wrapped,
                     val |-> <<>>]
         /\ pc' = IF IsPanic(o.kind) THEN "panicked" ELSE "ready"
    /\ UNCHANGED <<rom, overflow_checks, init_result, header, oob_read, fontx,
                   buf, last_ok>>

Render ==
    /\ pc = "ready"
    /\ \E c \in Chars : \E enc \in AdapterOutcomes(c) :
         LET x == render(fontx, rom, c, enc, buf, overflow_checks) IN
         /\ call' = [op |-> "render", ch |-> c, enc |-> enc,
                     kind |-> x.res.kind, off |-> x.res.off,
                     wrapped |-> x.res.wrapped,
                     val |-> IF x.res.kind = "Ok"
                             THEN <<fontx.width, fontx.height>> ELSE <<>>]
         /\ buf' = x.out
         /\ last_ok' = IF x.res.kind = "Ok"
                       THEN [ch |-> c, enc |-> enc,
                             out |-> SubSeq(x.out, 1, fontx.char_sz)]
                       ELSE last_ok
         /\ pc' = IF IsPanic(x.res.kind) THEN "panicked" ELSE "ready"
    /\ UNCHANGED <<rom, overflow_checks, init_result, header, oob_read, fontx>>

Next == New \/ NewShort \/ NewFault \/ GetSjisOffset \/ Render

Spec == Init /\ [][Next]_vars

(***************************************************************************)
(* Vocabulary of the properties: the code-block table as the file layout   *)
(* defines it, read from the blob independently of the table walk.         *)
(***************************************************************************)
\* the descriptor was built by new() from bytes of the blob alone
Constructed == init_result = "Ok" /\ ~oob_read

\* the last call was get_sjis_offset and the encoder gave it a code unit
Resolving == Constructed /\ call.op = "get_sjis_offset" /\ call.enc.res = "InputEmpty"

\* the 16-bit code unit the last call looked up
CodeUnit == sjis_code_of(call.enc)

\* the whole declared table lies inside the blob
TableInBlob == 18 + 4 * fontx.codeblocks <= Len(rom)

EntryStart(i) == At(rom, 18 + 4 * i) + 256 * At(rom, 18 + 4 * i + 1)

EntryEnd(i) == At(rom, 18 + 4 * i + 2) + 256 * At(rom, 18 + 4 * i + 3)

\* the declared entries that the blob holds completely
PresentEntries == {i \in 0..(fontx.codeblocks - 1) : 18 + 4 * i + 3 < Len(rom)}

Matching == {i \in PresentEntries : EntryStart(i) <= CodeUnit /\ CodeUnit <= EntryEnd(i)}

FirstMatch == CHOOSE k \in Matching : \A j \in Matching : k <= j

RECURSIVE GlyphsBefore(_)
GlyphsBefore(k) ==
    IF k = 0 THEN 0
    ELSE GlyphsBefore(k - 1) + (EntryEnd(k - 1) - EntryStart(k - 1) + 1)

CeilDiv8(w) == CHOOSE n \in 0..32 : 8 * n >= w /\ 8 * (n - 1) < w

Errors == {"UnsupportedCharacter", "UnknownError"}

(***************************************************************************)
(* Properties.                                                             *)
(***************************************************************************)

\* C1: in Shift-JIS mode, a code unit that lies in some table entry's range
\* resolves to headersz + (S + code - start_k) * char_sz, k the first
\* matching entry in table order and S the sum of end_i - start_i + 1 over
\* the entries before k.  The table walk computes end - start + 1 in u16, so
\* an entry with start > end before k makes it panic or wrap.
C1_FirstMatchOffset ==
    (fontx.code = "ShiftJIS" /\ TableInBlob /\ Resolving /\ Matching # {})
    => /\ call.kind = "Ok"
       /\ call.off = fontx.headersz
                     + (GlyphsBefore(FirstMatch) + (CodeUnit - EntryStart(FirstMatch)))
                       * fontx.char_sz

\* C2: in ANK mode a character c <= 0xFF that Shift-JIS-encodes to the single
\* byte c resolves to 17 + c * char_sz.  The code unit is formed with that
\* byte as the high byte, so only c = 0 resolves.
C2_AnkSelfEncoded ==
    (fontx.code = "ANK" /\ Resolving /\ call.ch <= 255
       /\ call.enc.bytes = <<call.ch>>)
    => /\ call.kind = "Ok"
       /\ call.off = 17 + call.ch * fontx.char_sz

\* C3: on a blob of at least 18 bytes, new() fails with InvalidFormat exactly
\* when the first 6 bytes are not "FONTX2" or the byte at offset 16 is
\* neither 0 nor 1; otherwise it succeeds; a failure leaves no descriptor.
C3_NewAcceptsExactly ==
    (init_result # "none" /\ Len(rom) >= 18)
    => /\ init_result \in {"Ok", "InvalidFormat"}
       /\ init_result = "InvalidFormat"
          <=> (\E i \in 1..6 : rom[i] # <<70, 79, 78, 84, 88, 50>>[i])
              \/ rom[17] \notin {0, 1}
       /\ init_result = "InvalidFormat" => fontx = NoFont /\ pc = "failed"
       /\ init_result = "Ok" => fontx.code \in {"ANK", "ShiftJIS"}
       /\ ~oob_read

\* a blob with the right magic and code_flag 2 was rejected
C3_Witness ==
    /\ Len(rom) >= 18
    /\ init_result = "InvalidFormat"
    /\ SubSeq(rom, 1, 6) = <<70, 79, 78, 84, 88, 50>>
    /\ rom[17] = 2

\* C4: on a blob shorter than 18 bytes, new() fails with InvalidFormat and
\* reads no byte behind the end of the blob.
C4_ShortBlobRejected ==
    (init_result # "none" /\ Len(rom) < 18)
    => init_result = "InvalidFormat" /\ ~oob_read

\* C5: a descriptor new() returns has width = byte 14, height = byte 15,
\* char_sz = ceil(width / 8) * height; with code_flag 0 codeblocks = 0 and
\* headersz = 17 whatever byte 17 holds; with code_flag 1 codeblocks = byte 17
\* and headersz = 18 + 4 * codeblocks.
C5_DescriptorFields ==
    init_result = "Ok"
    => /\ \A i \in 1..HeaderLen : i <= Len(rom) => header[i] = rom[i]
       /\ fontx.width = header[15]
       /\ fontx.height = header[16]
       /\ fontx.char_sz = CeilDiv8(header[15]) * header[16]
       /\ header[17] = 0 => fontx.code = "ANK" /\ fontx.codeblocks = 0
                            /\ fontx.headersz = 17
       /\ header[17] = 1 => fontx.code = "ShiftJIS"
                            /\ fontx.codeblocks = header[18]
                            /\ fontx.headersz = 18 + 4 * header[18]

\* an ANK descriptor of a 12-dot-wide font whose byte 17 is not 0
C5_Witness ==
    /\ Constructed
    /\ Len(rom) >= 18
    /\ fontx.code = "ANK"
    /\ rom[18] > 0
    /\ fontx.width = 12
    /\ fontx.char_sz = 4

\* C6: render never reads the blob or writes the buffer out of bounds, and
\* when the resolved range exceeds the blob or the buffer is smaller than
\* char_sz it returns an error instead of crashing.
C6_RenderChecked ==
    (Constructed /\ call.op = "render")
    => /\ ~IsPanic(call.kind)
       /\ (call.off >= 0 /\ (call.off + fontx.char_sz > Len(rom)
                             \/ Len(buf) < fontx.char_sz))
          => call.kind \in {"UnknownError", "CapacityError"}

\* C7: in Shift-JIS mode, also when the blob ends before the declared table
\* does, a code unit in none of the table ranges fails with
\* UnsupportedCharacter.
C7_NoRangeUnsupported ==
    (fontx.code = "ShiftJIS" /\ Resolving /\ Matching = {})
    => call.kind = "UnsupportedCharacter" /\ call.off = -1

\* C8: whatever the table holds, the table walk ends with an offset or
\* UnsupportedCharacter, and end - start + 1 and the accumulator are computed
\* without 16-bit underflow or overflow.
C8_TableArithmetic ==
    (fontx.code = "ShiftJIS" /\ TableInBlob /\ Resolving)
    => call.kind \in {"Ok", "UnsupportedCharacter"} /\ ~call.wrapped

\* C9: in both modes, get_sjis_offset and render fail with
\* UnsupportedCharacter for a character above U+FFFF and for one the encoder
\* reports unmappable, and with UnknownError when the encoder reports
\* OutputFull; none of these returns an offset.
C9_Unsupported ==
    call.op \in {"get_sjis_offset", "render"}
    => /\ (call.ch > 65535 \/ call.enc.res = "Unmappable")
          => call.kind = "UnsupportedCharacter" /\ call.off = -1 /\ call.val = <<>>
       /\ (call.ch <= 65535 /\ call.enc.res = "OutputFull")
          => call.kind = "UnknownError" /\ call.off = -1 /\ call.val = <<>>

\* render of Hangul GA on an ANK font failed with UnsupportedCharacter
C9_Witness ==
    /\ Constructed
    /\ call.op = "render"
    /\ call.ch = 44032
    /\ call.enc.res = "Unmappable"
    /\ call.kind = "UnsupportedCharacter"
    /\ fontx.code = "ANK"

\* C10: a successful render returns (width, height), leaves
\* rom[off .. off + char_sz) in buf[0 .. char_sz), off the offset
\* get_sjis_offset returns, leaves the rest of the buffer, the descriptor and
\* the blob as they were, and gives the same bytes as the last successful
\* render of the same character; a render that returns an error leaves the
\* buffer as it was.
C10_RenderFrame ==
    [][(pc = "ready" /\ call'.op = "render")
       => LET sz == fontx.char_sz
              o == get_sjis_offset(fontx, rom, call'.ch, call'.enc, overflow_checks)
          IN  /\ rom' = rom
              /\ fontx' = fontx
              /\ call'.kind = "Ok"
                 => /\ sz <= Len(buf)
                    /\ call'.val = <<fontx.width, fontx.height>>
                    /\ o.kind = "Ok"
                    /\ call'.off = o.off
                    /\ Len(buf') = Len(buf)
                    /\ \A i \in 1..sz : buf'[i] = rom[o.off + i]
                    /\ \A i \in (sz + 1)..Len(buf) : buf'[i] = buf[i]
                    /\ (last_ok.ch = call'.ch /\ last_ok.enc = call'.enc)
                       => SubSeq(buf', 1, sz) = last_ok.out
              /\ call'.kind \in Errors => buf' = buf]_vars

\* a glyph that is not the first one was copied into a buffer longer than it
C10_Witness ==
    /\ Constructed
    /\ call.op = "render"
    /\ call.kind = "Ok"
    /\ fontx.char_sz > 0
    /\ Len(buf) > fontx.char_sz
    /\ call.off > fontx.headersz
    /\ buf[1] # 201
    /\ buf[Len(buf)] = 200 + Len(buf)

====
